---------------------------- MODULE Spec2Model ----------------------------
(***************************************************************************)
(* Posts, comments, moderation and the auto-reply of the comment           *)
(* repository (src/src/repository/comments.py, posts.py) as a state        *)
(* machine.  Texts are sequences of one-character strings, so that         *)
(* str.lower, str.split and the substring test `in` are computed on        *)
(* characters.  Request handlers are coroutines of one event loop: they    *)
(* interleave at their awaits only, and time.sleep holds the loop.         *)
(* Columns no modelled operation reads (done, created_at, update_at) are   *)
(* left out of the rows.                                                   *)
(***************************************************************************)
EXTENDS Integers, Sequences, FiniteSets, TLC

VARIABLES
    WORDS,            \* the disallowed-word set, loaded once at import
    posts,            \* table posts, rows in insertion order
    comments,         \* table comments, rows in insertion order
    next_post_id,     \* serial of posts.id
    next_comment_id,  \* serial of comments.id
    req,              \* the create-comment request in flight: its call,
                      \* its frames and, once it returned, its outcome
    gen_in,           \* input of the pure-function specification
    gen_out,          \* output of the pure-function specification
    bd_in,            \* the last request for a daily breakdown
    bd_out,           \* and the response to it
    users,            \* the table users
    tokens,           \* the tokens the service has signed and handed out
    clock             \* the second the service's clock shows

breakdownVars == <<bd_in, bd_out>>

authVars == <<users, tokens, clock>>

vars == <<WORDS, posts, comments, next_post_id, next_comment_id, req,
          gen_in, gen_out, breakdownVars, authVars>>

storeVars == <<WORDS, posts, comments, next_post_id, next_comment_id, req>>

----------------------------------------------------------------------------
(* Bounds *)

\* Comment ids the store hands out in one run.
MaxComments == 3
\* Post ids the store hands out in one run.
MaxPosts == 1
\* Fragments concatenated into one input text of the pure-function specification.
MaxFrags == 3
\* The last calendar day of the breakdown specification; days count from 0.
MaxDay == 2
\* The instants of one day that the breakdown specification tells apart.
DayLen == 2
\* The comments the breakdown specification stores.
MaxStamped == 2
\* The last second of the clock of the authentication specification.
MaxClock == 2

\* Python's None / SQL NULL is the empty sequence and a value x is <<x>>.
None == <<>>
Some(x) == <<x>>

Users == {1, 2}
\* One create-comment coroutine runs at a time; the other calls, of other
\* sessions, interleave with it at its awaits.
Requests == {1}
PostIds == 1 .. (MaxPosts + 1)
CommentIds == 1 .. MaxComments

----------------------------------------------------------------------------
(* Texts *)

SP == <<" ">>
TAB == <<"\t">>
w_bad == <<"b", "a", "d">>
w_Bad == <<"B", "a", "d">>
w_badly == <<"b", "a", "d", "l", "y">>
w_ok == <<"o", "k">>
w_help == <<"h", "e", "l", "p">>
w_HELP == <<"H", "E", "L", "P">>
w_issue == <<"i", "s", "s", "u", "e">>
w_Issue == <<"I", "s", "s", "u", "E">>
w_need == <<"n", "e", "e", "d">>

HELP_RESPONSE ==
    <<"T", "h", "a", "n", "k", "s", " ", "f", "o", "r", " ", "y", "o", "u", "r", " ", "q", "u", "e", "s", "t", "i", "o", "n", "!", " ", "W", "e", " ", "w", "i", "l", "l", " ", "h", "e", "l", "p", " ", "y", "o", "u", " ", "s", "o", "o", "n", ".">>
ISSUE_RESPONSE ==
    <<"S", "o", "r", "r", "y", " ", "t", "o", " ", "h", "e", "a", "r", " ", "a", "b", "o", "u", "t", " ", "y", "o", "u", "r", " ", "i", "s", "s", "u", "e", ".", " ", "W", "e", " ", "a", "r", "e", " ", "l", "o", "o", "k", "i", "n", "g", " ", "i", "n", "t", "o", " ", "i", "t", ".">>
GENERIC_RESPONSE ==
    <<"T", "h", "a", "n", "k", " ", "y", "o", "u", " ", "f", "o", "r", " ", "y", "o", "u", "r", " ", "c", "o", "m", "m", "e", "n", "t", "!">>

\* The texts a draft carries: "badly ok" only contains a disallowed word,
\* "Bad issue" has one in another case, and "need<TAB>HELP issue" has both
\* reply keywords and is clean unless "help" is disallowed.
t_badly_ok == w_badly \o SP \o w_ok
t_Bad_issue == w_Bad \o SP \o w_issue
t_need_HELP_issue == w_need \o TAB \o w_HELP \o SP \o w_issue
DraftTexts == {t_badly_ok, t_Bad_issue, t_need_HELP_issue}

\* The word lists the process may have loaded.
WordSets == { {w_bad}, {w_bad, w_help} }

UPPER == <<"A", "B", "C", "D", "E", "F", "G", "H", "I", "J", "K", "L", "M",
           "N", "O", "P", "Q", "R", "S", "T", "U", "V", "W", "X", "Y", "Z">>
LOWER == <<"a", "b", "c", "d", "e", "f", "g", "h", "i", "j", "k", "l", "m",
           "n", "o", "p", "q", "r", "s", "t", "u", "v", "w", "x", "y", "z">>
Whitespace == {" ", "\t", "\n", "\r"}

\* str.lower, one character.
lower_char(c) ==
    IF \E i \in 1 .. Len(UPPER) : UPPER[i] = c
    THEN LOWER[CHOOSE i \in 1 .. Len(UPPER) : UPPER[i] = c]
    ELSE c

\* str.lower
lower(s) == [i \in 1 .. Len(s) |-> lower_char(s[i])]

\* str.split(): scan the characters, close a token at each whitespace and
\* keep no empty token.
RECURSIVE split_from(_, _, _, _)
split_from(s, i, cur, acc) ==
    IF i > Len(s)
    THEN IF cur = <<>> THEN acc ELSE Append(acc, cur)
    ELSE IF s[i] \in Whitespace
         THEN split_from(s, i + 1, <<>>, IF cur = <<>> THEN acc ELSE Append(acc, cur))
         ELSE split_from(s, i + 1, Append(cur, s[i]), acc)

split(s) == split_from(s, 1, <<>>, <<>>)

\* needle in haystack, on str
contains(haystack, needle) ==
    \E i \in 0 .. (Len(haystack) - Len(needle)) :
        SubSeq(haystack, i + 1, i + Len(needle)) = needle

Range(f) == {f[i] : i \in DOMAIN f}

\* A moderation bug: a disallowed word anywhere in the text blocks.
bad_words_substring(text, words) ==
    {w \in words : contains(lower(text), w)}

\* WORDS.intersection(text.lower().split())
bad_words_in_text(text, words) ==
    words \cap Range(split(lower(text)))

\* A reply-generator bug: the text is searched without .lower().
generate_case_sensitive(comment_text) ==
    IF contains(comment_text, w_help) THEN HELP_RESPONSE
    ELSE IF contains(comment_text, w_issue) THEN ISSUE_RESPONSE
    ELSE GENERIC_RESPONSE

\* A reply-generator bug: the two rules in the other order.
generate_issue_first(comment_text) ==
    IF contains(lower(comment_text), w_issue) THEN ISSUE_RESPONSE
    ELSE IF contains(lower(comment_text), w_help) THEN HELP_RESPONSE
    ELSE GENERIC_RESPONSE

generate_relevant_response(comment_text) ==
    IF contains(lower(comment_text), w_help) THEN HELP_RESPONSE
    ELSE IF contains(lower(comment_text), w_issue) THEN ISSUE_RESPONSE
    ELSE GENERIC_RESPONSE

----------------------------------------------------------------------------
(* Rows, drafts and lookups *)

\* CommentCreate, as create_comment reads it.  An unset auto_reply_flag is
\* stored as the column default False and an unset auto_reply_time as NULL.
draft(text, flag, time) ==
    [comment_text |-> text, auto_reply_flag |-> flag, auto_reply_time |-> time]

\* The drafts create_comment is called with: without a reply (clean and
\* blocked), with a reply at once (help and generic), a blocked comment with
\* a delayed reply, and a reply asked for with no delay or a negative one.
CommentDrafts ==
    { draft(t_badly_ok, FALSE, None),
      draft(t_Bad_issue, FALSE, None),
      draft(t_need_HELP_issue, TRUE, Some(0)),
      draft(t_badly_ok, TRUE, Some(0)),
      draft(t_Bad_issue, TRUE, Some(1)),
      draft(t_badly_ok, TRUE, None),
      draft(t_badly_ok, TRUE, Some(-1)) }

PostDownloads == {None}
PostDrafts == [post_text : {t_badly_ok, t_Bad_issue}, post_download : PostDownloads]

\* The drafts update_comment is called with.
UpdateDrafts ==
    { draft(t_badly_ok, FALSE, None), draft(t_Bad_issue, TRUE, Some(0)) }

post_exists(post_id) == \E i \in 1 .. Len(posts) : posts[i].id = post_id

\* select(Comment).filter_by(id=, post_id=, user_id=)
comments_by_triple(comment_id, post_id, user_id) ==
    LET Match(c) == c.id = comment_id /\ c.post_id = post_id /\ c.user_id = user_id
    IN  SelectSeq(comments, Match)

\* select(Post).filter_by(id=, user_id=)
posts_by_owner(post_id, user_id) ==
    LET Match(p) == p.id = post_id /\ p.user_id = user_id
    IN  SelectSeq(posts, Match)

\* The rows of s other than those with this id (DELETE ... WHERE id =).
\* A delete bug: the DELETE has no WHERE clause.
delete_every_row(s, id) == <<>>

without_id(s, id) ==
    LET Keep(x) == x.id # id
    IN  SelectSeq(s, Keep)

\* Result.scalar_one_or_none()
scalar_one_or_none(rows) == IF rows = <<>> THEN None ELSE Some(rows[1])

\* A pagination bug: the offset is left out of the query.
limit_without_offset(rows, skip, limit) ==
    SubSeq(rows, 1, IF limit < Len(rows) THEN limit ELSE Len(rows))

\* .offset(skip).limit(limit)
offset_limit(rows, skip, limit) ==
    SubSeq(rows, skip + 1, IF skip + limit < Len(rows) THEN skip + limit ELSE Len(rows))

----------------------------------------------------------------------------
(* create_comment: a coroutine with a call stack, one frame per call *)

Idle == [state |-> "idle", call |-> None, stack |-> <<>>,
         value |-> None, error |-> None]

\* time.sleep holds the event loop: while a frame is in it no other
\* coroutine of the process runs.
in_sleep(r) ==
    /\ req[r].stack # <<>>
    /\ req[r].stack[Len(req[r].stack)].pc = "sleep"

loop_free == \A r \in Requests : ~in_sleep(r)

\* Replies that calls in flight may still insert.
pending_replies ==
    Cardinality({r \in Requests :
        /\ req[r].state = "running"
        /\ Len(req[r].stack) = 1
        /\ req[r].stack[1].comment.auto_reply_flag = TRUE})

\* An exception leaves create_comment: every frame is unwound, and the
\* route turns it into a 500.
raised(r, call, detail) ==
    [req EXCEPT ![r] = [state |-> "done", call |-> Some(call), stack |-> <<>>,
                        value |-> None, error |-> Some(detail)]]

\* create_comment returns `comment` to the route.
returned(r, comment) ==
    [req EXCEPT ![r] = [@ EXCEPT !.state = "done", !.stack = <<>>,
                                 !.value = Some(comment)]]

\* Comment(post_id=, user_id=, **body.model_dump(exclude_unset=True), blocked=)
\* with the id the INSERT assigns.
new_comment(body, post_id, user_id, id) ==
    [id |-> id,
     post_id |-> post_id,
     user_id |-> user_id,
     comment_text |-> body.comment_text,
     auto_reply_flag |-> body.auto_reply_flag,
     auto_reply_time |-> body.auto_reply_time,
     blocked |-> bad_words_in_text(body.comment_text, WORDS) # {}]

\* Lines 90-103 of a call made by request r on top of the frames `below`:
\* classify, build the row, add and commit.  The INSERT violates the
\* foreign key posts.id when the post is not in the store.
create_comment_entry(r, call, below, body) ==
    LET row == new_comment(body, call.post_id, call.user, next_comment_id)
    IN  IF post_exists(call.post_id)
        THEN /\ comments' = Append(comments, row)
             /\ next_comment_id' = next_comment_id + 1
             /\ req' = [req EXCEPT ![r] =
                           [Idle EXCEPT !.state = "running",
                                        !.call = Some(call),
                                        !.stack = Append(below,
                                            [comment |-> row, pc |-> "refresh",
                                             timer |-> 0])]]
        ELSE /\ req' = raised(r, call, "IntegrityError")
             /\ UNCHANGED <<comments, next_comment_id>>

\* The route calls create_comment for a request of the caller.
CreateCommentCall(r, body, post_id, user) ==
    /\ loop_free
    /\ req[r].state = "idle"
    /\ next_comment_id + pending_replies + (IF body.auto_reply_flag THEN 1 ELSE 0)
           <= MaxComments
    /\ create_comment_entry(r, [body |-> body, post_id |-> post_id, user |-> user],
                            <<>>, body)
    /\ UNCHANGED <<WORDS, posts, next_post_id, gen_in, gen_out, breakdownVars, authVars>>

\* A return-value bug: the caller hands on what the recursive call returned.
return_reply(comment, reply) == reply

\* Line 110, in a frame whose recursive call returned `reply`.
return_comment(comment, reply) == comment

\* The value a chain of returns hands to the route: each frame of `callers`
\* resumes at line 110 with what its recursive call returned.
RECURSIVE unwind(_, _)
unwind(callers, value) ==
    IF callers = <<>>
    THEN value
    ELSE unwind(SubSeq(callers, 1, Len(callers) - 1),
                return_comment(callers[Len(callers)].comment, value))

\* A reply bug: the auto-reply branch is never taken.
wants_reply_never(comment) == FALSE

\* A reply bug: a blocked comment gets no reply.
wants_reply_unless_blocked(comment) ==
    comment.auto_reply_flag = TRUE /\ comment.blocked = FALSE

\* Line 105: comment.auto_reply_flag == True
wants_reply(comment) == comment.auto_reply_flag = TRUE

\* time.sleep(seconds): TypeError for None, ValueError for a negative length.
sleep_raises(seconds) ==
    IF seconds = None THEN Some("TypeError")
    ELSE IF seconds[1] < 0 THEN Some("ValueError")
    ELSE None

\* A delay bug: the reply is created at once.
sleep_length_zero(seconds) == 0

\* The seconds time.sleep(seconds) holds its thread.
sleep_length(seconds) == seconds[1]

\* Lines 104-106 and, without auto-reply, line 110: db.refresh reloads the
\* row by its id, then either the frame enters time.sleep or it returns.
Refresh(r) ==
    /\ loop_free
    /\ req[r].state = "running"
    /\ LET n == Len(req[r].stack)
           top == req[r].stack[n]
           found == LET Is(c) == c.id = top.comment.id IN SelectSeq(comments, Is)
       IN  /\ top.pc = "refresh"
           /\ IF found = <<>>
              THEN req' = raised(r, req[r].call[1], "InvalidRequestError")
              ELSE LET comment == found[1]
                   IN  IF wants_reply(comment)
                       THEN IF sleep_raises(comment.auto_reply_time) # None
                            THEN req' = raised(r, req[r].call[1],
                                               sleep_raises(comment.auto_reply_time)[1])
                            ELSE req' = [req EXCEPT ![r].stack[n] =
                                            [comment |-> comment,
                                             pc |-> "sleep",
                                             timer |-> sleep_length(
                                                 comment.auto_reply_time)]]
                       ELSE req' = returned(r, unwind(SubSeq(req[r].stack, 1, n - 1),
                                                      comment))
    /\ UNCHANGED <<WORDS, posts, comments, next_post_id, next_comment_id,
                   gen_in, gen_out, breakdownVars, authVars>>

\* One second of time.sleep(comment.auto_reply_time) passes.
SleepTick(r) ==
    /\ in_sleep(r)
    /\ LET n == Len(req[r].stack)
       IN  /\ req[r].stack[n].timer > 0
           /\ req' = [req EXCEPT ![r].stack[n].timer = @ - 1]
    /\ UNCHANGED <<WORDS, posts, comments, next_post_id, next_comment_id,
                   gen_in, gen_out, breakdownVars, authVars>>

\* A recursion bug: the reply asks for a reply of its own.
reply_draft_auto(reply_text) == draft(reply_text, TRUE, Some(0))

\* CommentCreate(comment_text=reply_text, auto_reply_flag=False)
reply_draft(reply_text) == draft(reply_text, FALSE, None)

\* Lines 107-109, then lines 90-103 of the recursive call: time.sleep is
\* over, the reply text is generated and the reply is inserted.
AfterSleep(r) ==
    /\ in_sleep(r)
    /\ LET n == Len(req[r].stack)
           top == req[r].stack[n]
           reply_text == generate_relevant_response(top.comment.comment_text)
       IN  /\ top.timer = 0
           /\ create_comment_entry(r, req[r].call[1],
                                   [req[r].stack EXCEPT ![n].pc = "await_reply"],
                                   reply_draft(reply_text))
    /\ UNCHANGED <<WORDS, posts, next_post_id, gen_in, gen_out, breakdownVars, authVars>>

\* A rollback bug: the failure of the reply's commit also takes back the
\* comment the caller's frame inserted.
comments_after_rollback_of_both(r) ==
    without_id(comments, req[r].stack[1].comment.id)

\* Table comments after the commit of the reply (line 103 of the recursive
\* call) failed: the session rolls back the transaction of the reply; the
\* caller's comment was committed by the transaction before it.
comments_after_failed_reply(r) == comments

\* Lines 107-109, then lines 90-103 of the recursive call, when the database
\* refuses the commit of the reply: the exception leaves both calls.
ReplyCommitFails(r) ==
    /\ in_sleep(r)
    /\ req[r].stack[Len(req[r].stack)].timer = 0
    /\ comments' = comments_after_failed_reply(r)
    /\ req' = raised(r, req[r].call[1], "OperationalError")
    /\ UNCHANGED <<WORDS, posts, next_post_id, next_comment_id, gen_in, gen_out, breakdownVars, authVars>>

\* routes/comments.py create_comment: the route answers 201 with the comment
\* create_comment returned, or 500 with the exception it raised.
Respond(r) ==
    /\ loop_free
    /\ req[r].state = "done"
    /\ req' = [req EXCEPT ![r] = Idle]
    /\ UNCHANGED <<WORDS, posts, comments, next_post_id, next_comment_id,
                   gen_in, gen_out, breakdownVars, authVars>>

----------------------------------------------------------------------------
(* The other repository calls.  Each runs between two awaits of its own    *)
(* session and is one step.  What a call returns is an operator of the     *)
(* store it runs on, named as the function; the action of the same call    *)
(* (in capitals) is what it does to the store.                             *)

Skips == {0, 1}
Limits == {1, 100}

\* A listing bug: the blocked filter is left out of the query.
select_comments_unfiltered(post_id, owner) ==
    LET Match(c) == /\ c.post_id = post_id
                    /\ (owner = None \/ c.user_id = owner[1])
    IN  SelectSeq(comments, Match)

\* select(Comment).filter_by(post_id=, [user_id=,] blocked=False)
select_comments(post_id, owner) ==
    LET Match(c) == /\ c.post_id = post_id
                    /\ (owner = None \/ c.user_id = owner[1])
                    /\ c.blocked = FALSE
    IN  SelectSeq(comments, Match)

get_all_comments(skip, limit, post_id) ==
    offset_limit(select_comments(post_id, None), skip, limit)

get_my_comments_to_post(skip, limit, post_id, user) ==
    offset_limit(select_comments(post_id, Some(user)), skip, limit)

\* select(Comment).filter_by(post_id=, id=, blocked=False)
get_comment(post_id, comment_id) ==
    LET Match(c) == c.post_id = post_id /\ c.id = comment_id /\ c.blocked = FALSE
    IN  scalar_one_or_none(SelectSeq(comments, Match))

\* routes/comments.py read_comment
read_comment(post_id, comment_id) ==
    LET comment == get_comment(post_id, comment_id)
    IN  IF comment = None
        THEN [status |-> 404, detail |-> "Comment not found"]
        ELSE IF comment[1].blocked = TRUE
        THEN [status |-> 404, detail |-> "Comment has been blocked"]
        ELSE [status |-> 200, comment |-> comment[1]]

\* The three reads leave the store as it is.
GetAllComments(skip, limit, post_id) ==
    /\ loop_free
    /\ get_all_comments(skip, limit, post_id) \in Seq(Range(comments))
    /\ UNCHANGED vars

GetMyCommentsToPost(skip, limit, post_id, user) ==
    /\ loop_free
    /\ get_my_comments_to_post(skip, limit, post_id, user) \in Seq(Range(comments))
    /\ UNCHANGED vars

ReadComment(post_id, comment_id) ==
    /\ loop_free
    /\ read_comment(post_id, comment_id).status \in {200, 404}
    /\ UNCHANGED vars

\* Comment(post_id=, user_id=, **body.model_dump(exclude_unset=True)): an
\* object that is never added to the session, with no id and no blocked.
transient_comment(body, post_id, user_id) ==
    [post_id |-> post_id,
     user_id |-> user_id,
     comment_text |-> body.comment_text,
     auto_reply_flag |-> body.auto_reply_flag,
     auto_reply_time |-> body.auto_reply_time]

\* A lookup bug: the owner is left out of the query.
find_comment_any_owner(comment_id, post_id, user_id) ==
    LET Match(c) == c.id = comment_id /\ c.post_id = post_id
    IN  scalar_one_or_none(SelectSeq(comments, Match))

\* Lines 127-130 and 154-157: the lookup by (id, post, owner).
find_comment(comment_id, post_id, user_id) ==
    scalar_one_or_none(comments_by_triple(comment_id, post_id, user_id))

\* What update_comment returns.
update_comment(comment_id, body, post_id, user) ==
    IF find_comment(comment_id, post_id, user) # None
    THEN Some(transient_comment(body, post_id, user))
    ELSE None

\* What remove_comment returns.
remove_comment(comment_id, post_id, user) == find_comment(comment_id, post_id, user)

\* An update that writes the draft's text into the row found and
\* classifies the row again.
comments_after_update_reclassified(comment_id, body, post_id, user) ==
    [i \in 1 .. Len(comments) |->
        IF find_comment(comment_id, post_id, user) = Some(comments[i])
        THEN [comments[i] EXCEPT
                 !.comment_text = body.comment_text,
                 !.blocked = bad_words_in_text(body.comment_text, WORDS) # {}]
        ELSE comments[i]]

\* Lines 131-137: table comments after update_comment's commit.  The name
\* `comment` is rebound to a Comment that is never added to the session:
\* the row found is not touched and the commit writes nothing.
comments_after_update_comment(comment_id, body, post_id, user) == comments

\* update_comment commits a session that holds no change.
UpdateComment(comment_id, body, post_id, user) ==
    /\ loop_free
    /\ update_comment(comment_id, body, post_id, user) \in {None} \cup
           {Some(transient_comment(body, post_id, user))}
    /\ comments' = comments_after_update_comment(comment_id, body, post_id, user)
    /\ UNCHANGED <<WORDS, posts, next_post_id, next_comment_id, req,
                   gen_in, gen_out, breakdownVars, authVars>>

RemoveComment(comment_id, post_id, user) ==
    /\ loop_free
    /\ LET comment == remove_comment(comment_id, post_id, user)
       IN  comments' = IF comment # None
                       THEN without_id(comments, comment[1].id)
                       ELSE comments
    /\ UNCHANGED <<WORDS, posts, next_post_id, next_comment_id, req,
                   gen_in, gen_out, breakdownVars, authVars>>

\* A moderation bug: create_post stores every post unblocked.
post_blocked_never(post_text) == FALSE

\* posts.py lines 80-85
post_blocked(post_text) == bad_words_in_text(post_text, WORDS) # {}

\* What create_post returns: the row it inserted.
create_post(body, user) ==
    [id |-> next_post_id,
     user_id |-> user,
     post_text |-> body.post_text,
     post_download |-> body.post_download,
     blocked |-> post_blocked(body.post_text)]

CreatePost(body, user) ==
    /\ loop_free
    /\ next_post_id <= MaxPosts
    /\ posts' = Append(posts, create_post(body, user))
    /\ next_post_id' = next_post_id + 1
    /\ UNCHANGED <<WORDS, comments, next_comment_id, req, gen_in, gen_out, breakdownVars, authVars>>

\* update_post as its text reads: blocked only when a word is disallowed.
update_post_classified(post_id, body, user) ==
    IF posts_by_owner(post_id, user) # <<>>
    THEN Some([post_text |-> body.post_text,
               post_download |-> body.post_download,
               user_id |-> user,
               blocked |-> post_blocked(body.post_text)])
    ELSE None

\* What update_post returns.  `bad_words_in_text != None` holds of every
\* set, and the Post built is never added to the session.
update_post(post_id, body, user) ==
    IF posts_by_owner(post_id, user) # <<>>
    THEN Some([post_text |-> body.post_text,
               post_download |-> body.post_download,
               user_id |-> user,
               blocked |-> TRUE])
    ELSE None

\* An update that writes the draft and the blocked flag it computed into
\* the row found.
posts_after_update_written(post_id, body, user) ==
    [i \in 1 .. Len(posts) |->
        IF posts[i].id = post_id /\ posts[i].user_id = user
        THEN [posts[i] EXCEPT !.post_text = body.post_text,
                              !.post_download = body.post_download,
                              !.blocked = TRUE]
        ELSE posts[i]]

\* Lines 114-124: table posts after update_post's commit.  The name `post`
\* is rebound to a Post that is never added to the session: the row found
\* is not touched and the commit writes nothing.
posts_after_update_post(post_id, body, user) == posts

\* Line 124: the commits update_post issues.
update_post_commits(post_id, body, user) ==
    IF posts_by_owner(post_id, user) # <<>> THEN 1 ELSE 0

UpdatePost(post_id, body, user) ==
    /\ loop_free
    /\ update_post(post_id, body, user) \in {None} \cup
           {Some([post_text |-> body.post_text, post_download |-> body.post_download,
                  user_id |-> user, blocked |-> TRUE])}
    /\ posts' = posts_after_update_post(post_id, body, user)
    /\ UNCHANGED <<WORDS, comments, next_post_id, next_comment_id, req,
                   gen_in, gen_out, breakdownVars, authVars>>

\* A delete bug: the post is deleted whether or not it has comments.
remove_post_never_raises(post_id, user) == FALSE

\* Post.comments has no delete cascade: deleting a post with comments sets
\* their post_id to NULL, which the column refuses.
remove_post_raises(post_id, user) ==
    /\ posts_by_owner(post_id, user) # <<>>
    /\ \E i \in 1 .. Len(comments) : comments[i].post_id = post_id

\* What remove_post returns when it does not raise.
remove_post(post_id, user) == scalar_one_or_none(posts_by_owner(post_id, user))

RemovePost(post_id, user) ==
    /\ loop_free
    /\ posts' = IF remove_post(post_id, user) # None /\ ~remove_post_raises(post_id, user)
                THEN without_id(posts, post_id)
                ELSE posts
    /\ UNCHANGED <<WORDS, comments, next_post_id, next_comment_id, req,
                   gen_in, gen_out, breakdownVars, authVars>>

\* models.py line 37 and selectinload(Post.comments): the collection a
\* loaded post carries is every comment row of the post.
post_comments(post) ==
    LET OfPost(c) == c.post_id = post.id
    IN  SelectSeq(comments, OfPost)

\* A post as the query loads it.
loaded_post(post) ==
    [id |-> post.id,
     user_id |-> post.user_id,
     post_text |-> post.post_text,
     post_download |-> post.post_download,
     blocked |-> post.blocked,
     comments |-> post_comments(post)]

\* select(Post).filter_by([id=,] [user_id=,] blocked=False)
\*     .options(selectinload(Post.comments))
select_posts(id, owner) ==
    LET Match(post) == /\ (id = None \/ post.id = id[1])
                       /\ (owner = None \/ post.user_id = owner[1])
                       /\ post.blocked = FALSE
        rows == SelectSeq(posts, Match)
    IN  [i \in 1 .. Len(rows) |-> loaded_post(rows[i])]

get_all_posts(skip, limit) ==
    offset_limit(select_posts(None, None), skip, limit)

get_my_posts(skip, limit, user) ==
    offset_limit(select_posts(None, Some(user)), skip, limit)

get_post(post_id) == scalar_one_or_none(select_posts(Some(post_id), None))

\* The three reads of posts leave the store as it is.
GetAllPosts(skip, limit) ==
    /\ loop_free
    /\ Len(get_all_posts(skip, limit)) <= Len(posts)
    /\ UNCHANGED vars

GetMyPosts(skip, limit, user) ==
    /\ loop_free
    /\ Len(get_my_posts(skip, limit, user)) <= Len(posts)
    /\ UNCHANGED vars

GetPost(post_id) ==
    /\ loop_free
    /\ Len(get_post(post_id)) <= 1
    /\ UNCHANGED vars

----------------------------------------------------------------------------
(* The routes for PUT and DELETE.  A value a route passes on is tagged     *)
(* with its Python type, since the repository reads the attribute id of    *)
(* what it is given as post and as user.                                   *)

py_int(n) == [type |-> "int", value |-> n]
py_body(body) == [type |-> "CommentCreate", value |-> body]
py_user(user) == [type |-> "User", id |-> user]

\* obj.id: rows have the attribute, an int and a CommentCreate do not.
has_attr_id(obj) == obj.type \in {"User", "Post"}

\* The outcome of a call: the exception it raised or the value it returned.
call_raised(exception) == [raised |-> Some(exception), value |-> None]
call_returned(value) == [raised |-> None, value |-> value]

\* repository update_comment(comment_id, body, post, user, db) on the values
\* given: line 128 reads post.id and user.id.
update_comment_call(comment_id, body, post, user) ==
    IF ~has_attr_id(post) \/ ~has_attr_id(user)
    THEN call_raised("AttributeError")
    ELSE call_returned(update_comment(comment_id.value, body.value,
                                      post.id, user.id))

\* repository remove_comment(comment_id, post, user, db) on the values given:
\* line 155 reads post.id and user.id.
remove_comment_call(comment_id, post, user) ==
    IF ~has_attr_id(post) \/ ~has_attr_id(user)
    THEN call_raised("AttributeError")
    ELSE call_returned(remove_comment(comment_id.value, post.id, user.id))

\* response_model: CommentResponse and PostResponse need an int id, which
\* an object that was never inserted does not have.
response_valid(row) == "id" \in DOMAIN row

response(status, detail, body) ==
    [status |-> status, detail |-> detail, body |-> body]

\* What the route answers with the object it returns.
serialize_response(row) ==
    IF response_valid(row)
    THEN response(200, "", Some(row))
    ELSE response(500, "ResponseValidationError", None)

\* routes/comments.py update_comment: the repository is called with
\* (post_id, comment_id, body, current_user); `except Exception` also
\* catches the HTTPException of the line before it.
route_update_comment(body, comment_id, post_id, current_user) ==
    LET call == update_comment_call(py_int(post_id), py_int(comment_id),
                                    py_body(body), py_user(current_user))
    IN  IF call.raised # None
        THEN response(500, call.raised[1], None)
        ELSE IF call.value = None
        THEN response(500, "404: Comment not found", None)
        ELSE serialize_response(call.value[1])

\* routes/comments.py remove_comment: the repository is called with
\* (post_id, comment_id, current_user) and nothing catches what it raises.
route_remove_comment(post_id, comment_id, current_user) ==
    LET call == remove_comment_call(py_int(post_id), py_int(comment_id),
                                    py_user(current_user))
    IN  IF call.raised # None
        THEN response(500, "Internal Server Error", None)
        ELSE IF call.value = None
        THEN response(404, "Comment not found", None)
        ELSE serialize_response(call.value[1])

\* routes/posts.py update_post
route_update_post(body, post_id, current_user) ==
    LET post == update_post(post_id, body, current_user)
    IN  IF post = None
        THEN response(500, "404: Post not found", None)
        ELSE serialize_response(post[1])

\* PUT /posts/{post_id}/{comment_id}
PutComment(body, comment_id, post_id, current_user) ==
    /\ loop_free
    /\ route_update_comment(body, comment_id, post_id, current_user).status
           \in {200, 500}
    /\ UNCHANGED vars

\* DELETE /posts/{post_id}/{comment_id}
DeleteComment(post_id, comment_id, current_user) ==
    /\ loop_free
    /\ LET call == remove_comment_call(py_int(post_id), py_int(comment_id),
                                       py_user(current_user))
       IN  comments' = IF call.raised = None /\ call.value # None
                       THEN without_id(comments, call.value[1].id)
                       ELSE comments
    /\ UNCHANGED <<WORDS, posts, next_post_id, next_comment_id, req,
                   gen_in, gen_out, breakdownVars, authVars>>

\* PUT /posts/{post_id}
PutPost(body, post_id, current_user) ==
    /\ loop_free
    /\ route_update_post(body, post_id, current_user).status = 500
    /\ posts' = posts_after_update_post(post_id, body, current_user)
    /\ UNCHANGED <<WORDS, comments, next_post_id, next_comment_id, req,
                   gen_in, gen_out, breakdownVars, authVars>>

\* A PUT or DELETE request of another session.
RouteStep ==
    \/ \E body \in UpdateDrafts, comment_id \in CommentIds,
          post_id \in PostIds, user \in Users :
           PutComment(body, comment_id, post_id, user)
    \/ \E post_id \in PostIds, comment_id \in CommentIds, user \in Users :
           DeleteComment(post_id, comment_id, user)
    \/ \E body \in PostDrafts, post_id \in PostIds, user \in Users :
           PutPost(body, post_id, user)

----------------------------------------------------------------------------
(* The pure functions on their own: a text is drawn, then the reply        *)
(* generator is applied to it.                                             *)

Fragments ==
    { w_help, w_HELP, w_issue, w_Issue, <<"h", "e">>, <<"l", "P">>, SP, w_ok }

RECURSIVE flatten(_)
flatten(fs) == IF fs = <<>> THEN <<>> ELSE fs[1] \o flatten(Tail(fs))

TextInputs ==
    {flatten(fs) : fs \in UNION {[1 .. n -> Fragments] : n \in 0 .. MaxFrags}}

NewText(t) ==
    /\ gen_in' = t
    /\ gen_out' = None
    /\ UNCHANGED <<storeVars, breakdownVars, authVars>>

Generate ==
    /\ gen_out = None
    /\ gen_out' = Some(generate_relevant_response(gen_in))
    /\ UNCHANGED <<gen_in, storeVars, breakdownVars, authVars>>

----------------------------------------------------------------------------
(* The daily breakdown.  A naive datetime is the number of its instant,    *)
(* DayLen instants to the day: day d runs from d * DayLen, its midnight,   *)
(* up to but not including (d + 1) * DayLen.  The comment rows of this      *)
(* specification keep the columns the breakdown reads, with the            *)
(* created_at the database stamped on them.                                *)

Days == 0 .. MaxDay
Datetimes == 0 .. ((MaxDay + 1) * DayLen - 1)

\* datetime.date(): the time of day is dropped.
date(datetime) == datetime \div DayLen

\* The pd.Timestamp of a date: its midnight.
Timestamp(day) == day * DayLen

\* timedelta(days=1)
one_day == DayLen

\* A range bug: the day of date_to is left out.
date_range_exclusive(start, end) ==
    [i \in 1 .. (IF end > start THEN end - start ELSE 0) |->
        Timestamp(start + i - 1)]

\* pd.date_range(start, end).tolist(): the midnights of start, ..., end.
date_range(start, end) ==
    [i \in 1 .. (IF end >= start THEN end - start + 1 ELSE 0) |->
        Timestamp(start + i - 1)]

\* date.strftime("%Y-%m-%d"): the calendar day of the timestamp.
strftime(timestamp) == timestamp \div DayLen

\* Lines 210-213: the comments of the post stamped within the day that
\* starts at `timestamp`.
comments_of_day(post_id, timestamp) ==
    LET OfPost(c) == c.post_id = post_id
        InDay(c) == /\ c.created_at >= timestamp
                    /\ c.created_at < timestamp + one_day
    IN  SelectSeq(SelectSeq(comments, OfPost), InDay)

\* Lines 214-216: the three counts of one day.
day_counts(post_id, timestamp) ==
    LET day == comments_of_day(post_id, timestamp)
        Blocked(c) == c.blocked = TRUE
        Unblocked(c) == c.blocked = FALSE
    IN  [total_count_of_comments |-> Len(day),
         blocked_count_of_comments |-> Len(SelectSeq(day, Blocked)),
         unblocked_count_of_comments |-> Len(SelectSeq(day, Unblocked))]

\* Lines 209-216: the loop over list_of_dates; result[key] = counts.
RECURSIVE breakdown_loop(_, _, _)
breakdown_loop(post_id, list_of_dates, result) ==
    IF list_of_dates = <<>>
    THEN result
    ELSE breakdown_loop(post_id, Tail(list_of_dates),
             (strftime(Head(list_of_dates)) :>
                  day_counts(post_id, Head(list_of_dates))) @@ result)

\* routes/posts.py get_daily_breakdown
get_daily_breakdown(post_id, date_from, date_to) ==
    IF date_from > date_to
    THEN [status |-> 400,
          detail |-> "Date from must be earlier than date to"]
    ELSE [status |-> 200,
          body |-> breakdown_loop(post_id,
                       date_range(date(date_from), date(date_to)), <<>>)]

\* GET /{post_id}/comments-daily-breakdown
GetDailyBreakdown(post_id, date_from, date_to) ==
    /\ bd_in' = Some([post_id |-> post_id, date_from |-> date_from,
                      date_to |-> date_to])
    /\ bd_out' = Some(get_daily_breakdown(post_id, date_from, date_to))
    /\ UNCHANGED <<storeVars, gen_in, gen_out, authVars>>

\* A comment is stored and the database stamps it: created_at is
\* func.now(), never earlier than that of the rows before it.
StoreComment(post_id, blocked, created_at) ==
    /\ Len(comments) < MaxStamped
    /\ post_exists(post_id)
    /\ \A i \in 1 .. Len(comments) : comments[i].created_at <= created_at
    /\ comments' = Append(comments, [id |-> next_comment_id,
                                     post_id |-> post_id,
                                     blocked |-> blocked,
                                     created_at |-> created_at])
    /\ next_comment_id' = next_comment_id + 1
    /\ UNCHANGED <<WORDS, posts, next_post_id, req, gen_in, gen_out,
                   breakdownVars, authVars>>

----------------------------------------------------------------------------
(* Authentication.  A token is the payload jwt.encode signed: its sub, its *)
(* scope (absent from an email token), and iat in whole seconds; exp is    *)
(* iat plus the lifetime of the kind, past the last second of the clock.   *)
(* Two tokens of one kind for one sub made within one second are the same  *)
(* string.  `signed` is false of a string jwt.decode refuses.              *)

Emails == {"a@x.io"}
Passwords == {"pw1", "pw2"}

\* services/auth.py create_access_token
create_access_token(email) ==
    [sub |-> email, scope |-> Some("access_token"), iat |-> clock,
     signed |-> TRUE]

\* services/auth.py create_refresh_token
create_refresh_token(email) ==
    [sub |-> email, scope |-> Some("refresh_token"), iat |-> clock,
     signed |-> TRUE]

\* services/auth.py create_email_token: no scope claim
create_email_token(email) ==
    [sub |-> email, scope |-> None, iat |-> clock, signed |-> TRUE]

\* A string that was not signed with SECRET_KEY_JWT.
forged_token(email) ==
    [sub |-> email, scope |-> Some("refresh_token"), iat |-> 0,
     signed |-> FALSE]

\* What a client can present: a token it was handed, or a forged one.
Presented == tokens \cup {forged_token(email) : email \in Emails}

\* HTTPException(status_code=, detail=)
http_exception(status, detail) == [status |-> status, detail |-> detail]

\* An exception no handler catches: the server answers 500.
server_error(exception) == [status |-> 500, detail |-> exception]

\* pwd_context.hash and pwd_context.verify
get_password_hash(password) == <<"bcrypt", password>>
verify_password(plain_password, hashed_password) ==
    hashed_password = <<"bcrypt", plain_password>>

\* repository/users.py get_user_by_email
get_user_by_email(email) ==
    LET Match(user) == user.email = email
    IN  scalar_one_or_none(SelectSeq(users, Match))

\* repository/users.py update_token: user.refresh_token = token; commit
update_token(email, token) ==
    [i \in DOMAIN users |->
        IF users[i].email = email
        THEN [users[i] EXCEPT !.refresh_token = token]
        ELSE users[i]]

\* services/auth.py decode_refresh_token: payload['scope'] of a token
\* without the claim is a KeyError, which `except JWTError` lets through.
decode_refresh_token(token) ==
    IF ~token.signed
    THEN call_raised(http_exception(401, "Could not validate credentials"))
    ELSE IF token.scope = None
    THEN call_raised(server_error("KeyError"))
    ELSE IF token.scope = Some("refresh_token")
    THEN call_returned(token.sub)
    ELSE call_raised(http_exception(401, "Invalid scope for token"))

\* services/auth.py get_current_user
get_current_user(token) ==
    IF ~token.signed
    THEN call_raised(http_exception(401, "Could not validate credentials"))
    ELSE IF token.scope = None
    THEN call_raised(server_error("KeyError"))
    ELSE IF token.scope # Some("access_token")
    THEN call_raised(http_exception(401, "Could not validate credentials"))
    ELSE IF get_user_by_email(token.sub) = None
    THEN call_raised(http_exception(401, "Could not validate credentials"))
    ELSE call_returned(get_user_by_email(token.sub)[1])

\* services/auth.py get_email_from_token: any token that decodes will do.
get_email_from_token(token) ==
    IF ~token.signed
    THEN call_raised(http_exception(422, "Invalid token for email verification"))
    ELSE call_returned(token.sub)

\* routes/auth.py signup: the response ...
route_signup(email, password) ==
    IF get_user_by_email(email) # None
    THEN http_exception(409, "Account already exists")
    ELSE [status |-> 201,
          detail |-> "User successfully created. Check your email for confirmation."]

\* ... and the table after it (repository create_user).
users_after_signup(email, password) ==
    IF get_user_by_email(email) # None
    THEN users
    ELSE Append(users, [email |-> email,
                        password |-> get_password_hash(password),
                        confirmed |-> FALSE,
                        refresh_token |-> None])

\* POST /auth/signup; send_confirm_email mails an email token.
Signup(email, password) ==
    /\ users' = users_after_signup(email, password)
    /\ tokens' = IF route_signup(email, password).status = 201
                 THEN tokens \cup {create_email_token(email)}
                 ELSE tokens
    /\ UNCHANGED <<storeVars, gen_in, gen_out, breakdownVars, clock>>

\* routes/auth.py login: the response ...
route_login(email, password) ==
    LET user == get_user_by_email(email)
    IN  IF user = None
        THEN http_exception(401, "Invalid email")
        ELSE IF ~user[1].confirmed
        THEN http_exception(401, "Email not confirmed")
        ELSE IF ~verify_password(password, user[1].password)
        THEN http_exception(401, "Invalid password")
        ELSE [status |-> 200,
              access_token |-> create_access_token(email),
              refresh_token |-> create_refresh_token(email)]

\* ... and the table after it.
users_after_login(email, password) ==
    IF route_login(email, password).status = 200
    THEN update_token(email, Some(create_refresh_token(email)))
    ELSE users

\* POST /auth/login
Login(email, password) ==
    /\ users' = users_after_login(email, password)
    /\ tokens' = IF route_login(email, password).status = 200
                 THEN tokens \cup {create_access_token(email),
                                   create_refresh_token(email)}
                 ELSE tokens
    /\ UNCHANGED <<storeVars, gen_in, gen_out, breakdownVars, clock>>

\* routes/auth.py refresh_token: the response ...
route_refresh_token(token) ==
    LET email == decode_refresh_token(token)
    IN  IF email.raised # None
        THEN email.raised[1]
        ELSE IF get_user_by_email(email.value) = None
        THEN server_error("AttributeError")
        ELSE IF get_user_by_email(email.value)[1].refresh_token # Some(token)
        THEN http_exception(401, "Invalid refresh token")
        ELSE [status |-> 200,
              access_token |-> create_access_token(email.value),
              refresh_token |-> create_refresh_token(email.value)]

\* A rotation bug: a token that is not the stored one is refused, and the
\* stored one stays.
users_after_refresh_kept(token) ==
    IF route_refresh_token(token).status = 200
    THEN update_token(token.sub, Some(create_refresh_token(token.sub)))
    ELSE users

\* ... and the table after it: lines 80-81 clear the stored token, line 86
\* stores the new one.
users_after_refresh_token(token) ==
    LET email == decode_refresh_token(token)
    IN  IF email.raised # None \/ get_user_by_email(email.value) = None
        THEN users
        ELSE IF get_user_by_email(email.value)[1].refresh_token # Some(token)
        THEN update_token(email.value, None)
        ELSE update_token(email.value,
                          Some(create_refresh_token(email.value)))

\* GET /auth/refresh_token
RefreshToken(token) ==
    /\ users' = users_after_refresh_token(token)
    /\ tokens' = IF route_refresh_token(token).status = 200
                 THEN tokens \cup {create_access_token(token.sub),
                                   create_refresh_token(token.sub)}
                 ELSE tokens
    /\ UNCHANGED <<storeVars, gen_in, gen_out, breakdownVars, clock>>

\* routes/auth.py confirmed_email: the response ...
route_confirmed_email(token) ==
    LET email == get_email_from_token(token)
    IN  IF email.raised # None
        THEN email.raised[1]
        ELSE IF get_user_by_email(email.value) = None
        THEN http_exception(400, "Verification error")
        ELSE IF get_user_by_email(email.value)[1].confirmed = TRUE
        THEN [status |-> 200, message |-> "Your email is already confirmed"]
        ELSE [status |-> 200, message |-> "Email confirmed"]

\* ... and the table after it (repository confirmed_email).
users_after_confirmed_email(token) ==
    IF /\ route_confirmed_email(token).status = 200
       /\ route_confirmed_email(token).message = "Email confirmed"
    THEN [i \in DOMAIN users |->
             IF users[i].email = token.sub
             THEN [users[i] EXCEPT !.confirmed = TRUE]
             ELSE users[i]]
    ELSE users

\* GET /auth/confirmed_email/{token}
ConfirmedEmail(token) ==
    /\ users' = users_after_confirmed_email(token)
    /\ UNCHANGED <<storeVars, gen_in, gen_out, breakdownVars, tokens, clock>>

\* routes/auth.py reset_password: line 171 calls
\* repository_users.update_password, which repository/users.py does not
\* define: AttributeError, after the token was taken for good.
route_reset_password(token, password) ==
    LET email == get_email_from_token(token)
    IN  IF email.raised # None
        THEN email.raised[1]
        ELSE IF get_user_by_email(email.value) = None
        THEN http_exception(404, "User not found")
        ELSE server_error("AttributeError")

\* POST /auth/reset_password/{token}: the password set on the loaded user
\* at line 170 is never committed.
ResetPassword(token, password) ==
    /\ route_reset_password(token, password).status \in {404, 422, 500}
    /\ UNCHANGED vars

\* A route that depends on get_current_user is called with the token.
GetCurrentUser(token) ==
    /\ get_current_user(token).raised # None
           \/ get_current_user(token).value \in Range(users)
    /\ UNCHANGED vars

\* POST /auth/forget_password: send_reset_email mails an email token to a
\* user that exists.
ForgetPassword(email) ==
    /\ tokens' = IF get_user_by_email(email) # None
                 THEN tokens \cup {create_email_token(email)}
                 ELSE tokens
    /\ UNCHANGED <<storeVars, gen_in, gen_out, breakdownVars, users, clock>>

\* A second passes.
Tick ==
    /\ clock < MaxClock
    /\ clock' = clock + 1
    /\ UNCHANGED <<storeVars, gen_in, gen_out, breakdownVars, users, tokens>>

----------------------------------------------------------------------------
(* The specification of the store and its requests *)

Init ==
    /\ WORDS \in WordSets
    /\ posts = <<>>
    /\ comments = <<>>
    /\ next_post_id = 1
    /\ next_comment_id = 1
    /\ req = [r \in Requests |-> Idle]
    /\ gen_in = <<>>
    /\ gen_out = None
    /\ bd_in = None
    /\ bd_out = None
    /\ users = <<>>
    /\ tokens = {}
    /\ clock = 0

\* The steps of request r.
RequestStep(r) ==
    \/ \E body \in CommentDrafts, post_id \in PostIds, user \in Users :
           CreateCommentCall(r, body, post_id, user)
    \/ Refresh(r)
    \/ SleepTick(r)
    \/ AfterSleep(r)
    \/ ReplyCommitFails(r)
    \/ Respond(r)

\* A read served for another session.
ReadStep ==
    \/ \E skip \in Skips, limit \in Limits, post_id \in PostIds :
           GetAllComments(skip, limit, post_id)
    \/ \E skip \in Skips, limit \in Limits, post_id \in PostIds, user \in Users :
           GetMyCommentsToPost(skip, limit, post_id, user)
    \/ \E post_id \in PostIds, comment_id \in CommentIds :
           ReadComment(post_id, comment_id)
    \/ \E skip \in Skips, limit \in Limits : GetAllPosts(skip, limit)
    \/ \E skip \in Skips, limit \in Limits, user \in Users :
           GetMyPosts(skip, limit, user)
    \/ \E post_id \in PostIds : GetPost(post_id)

Next ==
    \/ \E r \in Requests : RequestStep(r)
    \/ ReadStep
    \/ \E comment_id \in CommentIds, body \in UpdateDrafts,
          post_id \in PostIds, user \in Users :
           UpdateComment(comment_id, body, post_id, user)
    \/ \E comment_id \in CommentIds, post_id \in PostIds, user \in Users :
           RemoveComment(comment_id, post_id, user)
    \/ \E body \in PostDrafts, user \in Users : CreatePost(body, user)
    \/ \E post_id \in PostIds, body \in PostDrafts, user \in Users :
           UpdatePost(post_id, body, user)
    \/ \E post_id \in PostIds, user \in Users : RemovePost(post_id, user)
    \/ RouteStep

Spec == Init /\ [][Next]_vars

\* The calls that write comments, the only ones the reply of a comment
\* depends on.
NextLive ==
    \/ \E r \in Requests : RequestStep(r)
    \/ \E body \in PostDrafts, user \in Users : CreatePost(body, user)
    \/ \E comment_id \in CommentIds, post_id \in PostIds, user \in Users :
           RemoveComment(comment_id, post_id, user)

\* The steps a call takes by itself once it was started.  The failure of a
\* commit is not among them: nothing owes it.
CoroutineStep ==
    \E r \in Requests : Refresh(r) \/ SleepTick(r) \/ Respond(r)

\* time.sleep of the top frame of request r is over: AfterSleep(r) can be
\* taken, and in no other state.
sleep_over(r) ==
    /\ in_sleep(r)
    /\ req[r].stack[Len(req[r].stack)].timer = 0

\* The event loop runs a coroutine that is ready, and time.sleep returns:
\* weak fairness of every step of a call, that of AfterSleep written out
\* with the states in which it can be taken.
SpecLive ==
    /\ Init
    /\ [][NextLive]_vars
    /\ WF_vars(CoroutineStep)
    /\ \A r \in Requests : []<>(~sleep_over(r)) \/ []<><<AfterSleep(r)>>_vars

InitText ==
    /\ WORDS \in WordSets
    /\ posts = <<>>
    /\ comments = <<>>
    /\ next_post_id = 1
    /\ next_comment_id = 1
    /\ req = [r \in Requests |-> Idle]
    /\ gen_in \in TextInputs
    /\ gen_out = None
    /\ bd_in = None
    /\ bd_out = None
    /\ users = <<>>
    /\ tokens = {}
    /\ clock = 0

NextText ==
    \/ \E t \in TextInputs : NewText(t)
    \/ Generate

SpecText == InitText /\ [][NextText]_vars

\* The breakdown specification starts with every post stored.
InitBreakdown ==
    /\ WORDS = {w_bad}
    /\ posts = [i \in PostIds |->
                   [id |-> i, user_id |-> 1, post_text |-> t_badly_ok,
                    post_download |-> None, blocked |-> FALSE]]
    /\ comments = <<>>
    /\ next_post_id = Len(posts) + 1
    /\ next_comment_id = 1
    /\ req = [r \in Requests |-> Idle]
    /\ gen_in = <<>>
    /\ gen_out = None
    /\ bd_in = None
    /\ bd_out = None
    /\ users = <<>>
    /\ tokens = {}
    /\ clock = 0

NextBreakdown ==
    \/ \E post_id \in PostIds, blocked \in BOOLEAN, created_at \in Datetimes :
           StoreComment(post_id, blocked, created_at)
    \/ \E post_id \in PostIds \cup {Len(posts) + 1},
          date_from \in Datetimes, date_to \in Datetimes :
           GetDailyBreakdown(post_id, date_from, date_to)

SpecBreakdown == InitBreakdown /\ [][NextBreakdown]_vars

NextAuth ==
    \/ \E email \in Emails, password \in Passwords : Signup(email, password)
    \/ \E email \in Emails, password \in Passwords : Login(email, password)
    \/ \E token \in Presented : RefreshToken(token)
    \/ \E token \in Presented : ConfirmedEmail(token)
    \/ \E token \in Presented, password \in Passwords :
           ResetPassword(token, password)
    \/ \E token \in Presented : GetCurrentUser(token)
    \/ \E email \in Emails : ForgetPassword(email)
    \/ Tick

SpecAuth == Init /\ [][NextAuth]_vars

----------------------------------------------------------------------------
(* What the claims speak of, stated on the characters of a text and not    *)
(* through lower, split or contains.                                       *)

\* l is the lowercase of the character c.
is_lower_of(c, l) ==
    \/ \E i \in 1 .. Len(UPPER) : UPPER[i] = c /\ LOWER[i] = l
    \/ (\A i \in 1 .. Len(UPPER) : UPPER[i] # c) /\ l = c

\* Characters i..j of text are one whitespace-separated token.
TokenAt(text, i, j) ==
    /\ (i = 1 \/ text[i - 1] \in Whitespace)
    /\ (j = Len(text) \/ text[j + 1] \in Whitespace)
    /\ \A k \in i .. j : text[k] \notin Whitespace

\* Lowercased, characters i..j of text spell word.
SpellsWord(text, i, j, word) ==
    /\ j - i + 1 = Len(word)
    /\ \A k \in 1 .. Len(word) : is_lower_of(text[i + k - 1], word[k])

\* Some token of the lowercased text is a disallowed word.
HasDisallowedToken(text, words) ==
    \E i \in 1 .. Len(text) :
        /\ (i = 1 \/ text[i - 1] \in Whitespace)
        /\ \E j \in i .. Len(text) :
               /\ TokenAt(text, i, j)
               /\ \E w \in words : SpellsWord(text, i, j, w)

\* The lowercased text contains word as a substring.
ContainsIgnoringCase(text, word) ==
    \E i \in 1 .. (Len(text) - Len(word) + 1) :
        SpellsWord(text, i, i + Len(word) - 1, word)

\* The reply the rules of the generator give, help before issue.
ExpectedReply(text) ==
    IF ContainsIgnoringCase(text, w_help) THEN HELP_RESPONSE
    ELSE IF ContainsIgnoringCase(text, w_issue) THEN ISSUE_RESPONSE
    ELSE GENERIC_RESPONSE

\* Request r's call returned a comment to the route.
ReturnedOk(r) == req[r].state = "done" /\ req[r].error = None

----------------------------------------------------------------------------
(* Claims *)

\* C1: create_comment persists a comment with blocked = true exactly when
\* a whitespace-separated token of the lowercased text is a disallowed
\* word; a token that only contains one ("badly") does not block.
C1_BlockedIffDisallowedToken ==
    \A i \in 1 .. Len(comments) :
        comments[i].blocked = HasDisallowedToken(comments[i].comment_text, WORDS)

\* C1 witness: a comment blocked for "Bad" and an unblocked "badly ok" are stored.
C1_Witness ==
    \E i, j \in 1 .. Len(comments) :
        /\ comments[i].comment_text = t_Bad_issue /\ comments[i].blocked
        /\ comments[j].comment_text = t_badly_ok /\ ~comments[j].blocked

\* C2: create_post appends the post it returns; its text is the draft's and
\* its blocked flag is true exactly when a token of the lowercased text is
\* a disallowed word, so a post with a disallowed word is stored, blocked.
C2_CreatePostClassifies ==
    [][\A body \in PostDrafts, user \in Users :
           CreatePost(body, user) =>
               LET post == create_post(body, user)
               IN  /\ posts' = Append(posts, post)
                   /\ post.post_text = body.post_text
                   /\ post.blocked = HasDisallowedToken(body.post_text, WORDS)]_vars

\* C2 witness: a post with a disallowed word is in the store, blocked.
C2_Witness ==
    \E i \in 1 .. Len(posts) :
        posts[i].post_text = t_Bad_issue /\ posts[i].blocked

\* C3: a call of create_comment that returns has inserted two rows when its
\* draft has auto_reply_flag = true and auto_reply_time = 0 and one row when
\* it has auto_reply_flag = false; each step of the call at most appends a
\* row of the call's post and leaves every other row and every post alone.
C3_RowsAddedByOneCall ==
    [][\A r \in Requests :
           req'[r] # req[r] =>
               /\ posts' = posts
               /\ \/ comments' = comments
                  \/ /\ Len(comments') = Len(comments) + 1
                     /\ SubSeq(comments', 1, Len(comments)) = comments
                     /\ comments'[Len(comments')].post_id = req'[r].call[1].post_id
               /\ (req'[r].state = "done" /\ req[r].state = "running"
                     /\ req'[r].error = None) =>
                      LET body == req'[r].call[1].body
                          added == next_comment_id' - req'[r].value[1].id
                      IN  /\ (body.auto_reply_flag /\ body.auto_reply_time = Some(0))
                                 => added = 2
                          /\ ~body.auto_reply_flag => added = 1]_vars

\* C3 witness: a call with auto_reply_flag = true and auto_reply_time = 0
\* has returned, and the store holds its two rows beside another one.
C3_Witness ==
    \E r \in Requests :
        /\ ReturnedOk(r)
        /\ req[r].call[1].body.auto_reply_flag
        /\ req[r].call[1].body.auto_reply_time = Some(0)
        /\ Len(comments) = 3

\* C4: the frame of a recursive call holds a comment with auto_reply_flag =
\* false and only waits for its refresh, so no call is ever more than one
\* level below the route's call.
C4_RecursionDepthOne ==
    \A r \in Requests :
        /\ Len(req[r].stack) <= 2
        /\ \A k \in 2 .. Len(req[r].stack) :
               /\ req[r].stack[k].comment.auto_reply_flag = FALSE
               /\ req[r].stack[k].pc = "refresh"

\* C4 witness: a recursive call is in flight.
C4_Witness == \E r \in Requests : Len(req[r].stack) = 2

\* C5: while a create_comment request waits out its delay, a read of
\* another session can be served.
C5_DelayLeavesOthersRunning ==
    \A r \in Requests :
        (in_sleep(r) /\ req[r].stack[Len(req[r].stack)].timer > 0)
            => ENABLED ReadStep

\* C6: create_comment returns the comment built from the caller's draft,
\* also when a reply was created during the call.
C6_ReturnsOriginal ==
    \A r \in Requests :
        ReturnedOk(r) =>
            LET call == req[r].call[1]
                comment == req[r].value[1]
            IN  /\ comment.comment_text = call.body.comment_text
                /\ comment.auto_reply_flag = call.body.auto_reply_flag
                /\ comment.auto_reply_time = call.body.auto_reply_time
                /\ comment.post_id = call.post_id
                /\ comment.user_id = call.user

\* C6 witness: a call that created a reply has returned.
C6_Witness ==
    \E r \in Requests : ReturnedOk(r) /\ req[r].value[1].auto_reply_flag

\* C7: the reply created for a comment has the text the generator's rules
\* give for the comment's text, the comment's post_id and user_id, and a
\* blocked flag classified from the reply's own text.
C7_ReplyOfOriginal ==
    \A r \in Requests :
        Len(req[r].stack) >= 2 =>
            LET original == req[r].stack[1].comment
                reply == req[r].stack[2].comment
            IN  /\ reply.comment_text = ExpectedReply(original.comment_text)
                /\ reply.post_id = original.post_id
                /\ reply.user_id = original.user_id
                /\ reply.blocked = HasDisallowedToken(reply.comment_text, WORDS)
                /\ \A i \in 1 .. Len(comments) :
                       comments[i].id = reply.id => comments[i] = reply

\* C7 witness: the reply to "need<TAB>HELP issue" is stored, blocked because
\* "help" is disallowed.
C7_Witness ==
    \E r \in Requests :
        /\ Len(req[r].stack) = 2
        /\ req[r].stack[1].comment.comment_text = t_need_HELP_issue
        /\ req[r].stack[2].comment.blocked
        /\ \E i \in 1 .. Len(comments) : comments[i] = req[r].stack[2].comment

\* C8: generate_relevant_response gives the help response when the
\* lowercased text contains "help", else the issue response when it
\* contains "issue", else the generic one, whatever the case of the letters.
C8_GenerateRules ==
    gen_out # None => gen_out[1] = ExpectedReply(gen_in)

\* C8 witness: a text in mixed case with both keywords got the help response.
C8_Witness ==
    /\ gen_out = Some(HELP_RESPONSE)
    /\ ContainsIgnoringCase(gen_in, w_issue)
    /\ ~contains(gen_in, w_help)

\* C9: in every state, no comment read returns a blocked comment, and a
\* blocked comment fetched by its id is reported as not found.
C9_ReadsHideBlocked ==
    /\ \A skip \in Skips, limit \in Limits, post_id \in PostIds :
           /\ \A c \in Range(get_all_comments(skip, limit, post_id)) : ~c.blocked
           /\ \A user \in Users :
                  \A c \in Range(get_my_comments_to_post(skip, limit, post_id, user)) :
                      ~c.blocked
    /\ \A post_id \in PostIds, comment_id \in CommentIds :
           /\ get_comment(post_id, comment_id) # None
                  => ~get_comment(post_id, comment_id)[1].blocked
           /\ (\E i \in 1 .. Len(comments) :
                   /\ comments[i].id = comment_id
                   /\ comments[i].blocked)
                  => /\ get_comment(post_id, comment_id) = None
                     /\ read_comment(post_id, comment_id).status = 404

\* C9 witness: a post has a blocked and an unblocked comment, and the
\* listing of the post returns a comment.
C9_Witness ==
    \E i, j \in 1 .. Len(comments) :
        /\ comments[i].blocked /\ ~comments[j].blocked
        /\ comments[i].post_id = comments[j].post_id
        /\ get_all_comments(0, 100, comments[i].post_id) # <<>>

\* No stored comment has this id, post and owner.
NoSuchComment(comment_id, post_id, user) ==
    \A i \in 1 .. Len(comments) :
        ~(/\ comments[i].id = comment_id
          /\ comments[i].post_id = post_id
          /\ comments[i].user_id = user)

\* C10: called with an (id, post, owner) triple no stored comment has,
\* update_comment and remove_comment return None ...
C10_NoMatchReturnsNone ==
    \A comment_id \in CommentIds, post_id \in PostIds, user \in Users :
        NoSuchComment(comment_id, post_id, user) =>
            /\ remove_comment(comment_id, post_id, user) = None
            /\ \A body \in UpdateDrafts :
                   update_comment(comment_id, body, post_id, user) = None

\* ... and leave every stored comment and post unchanged.
C10_NoMatchChangesNothing ==
    (comments' # comments \/ posts' # posts) =>
        \A comment_id \in CommentIds, post_id \in PostIds, user \in Users :
            NoSuchComment(comment_id, post_id, user) =>
                /\ ~RemoveComment(comment_id, post_id, user)
                /\ \A body \in UpdateDrafts :
                       ~UpdateComment(comment_id, body, post_id, user)

\* C10: update_comment and remove_comment called with a triple that matches
\* no stored comment (a user who is not the owner, another post, an id not
\* in the store) return None and leave the comments and posts unchanged.
C10_NoMatchNotFound ==
    [](C10_NoMatchReturnsNone) /\ [][C10_NoMatchChangesNothing]_vars

\* C10 witness: a comment is stored and a user who is not its owner
\* addresses it.
C10_Witness ==
    \E i \in 1 .. Len(comments) :
        \E user \in Users :
            /\ user # comments[i].user_id
            /\ remove_comment(comments[i].id, comments[i].post_id, user) = None

\* C11: when update_comment finds the comment of (id, post, owner), the
\* stored comment with that id has the draft's text after the call, and a
\* read of the comment returns that text.
C11_UpdatePersistsText ==
    \A comment_id \in CommentIds, body \in UpdateDrafts,
       post_id \in PostIds, user \in Users :
        update_comment(comment_id, body, post_id, user) # None =>
            \E i \in 1 .. Len(comments) :
                LET after == comments_after_update_comment(comment_id, body,
                                                           post_id, user)
                IN  /\ after[i].id = comment_id
                    /\ after[i].comment_text = body.comment_text

\* C12: update_comment does not classify again: whatever the draft's text,
\* the stored blocked flag of the comment it finds is after the update what
\* it was before.
C12_UpdateKeepsBlocked ==
    \A comment_id \in CommentIds, body \in UpdateDrafts,
       post_id \in PostIds, user \in Users :
        update_comment(comment_id, body, post_id, user) # None =>
            LET after == comments_after_update_comment(comment_id, body,
                                                       post_id, user)
            IN  /\ Len(after) = Len(comments)
                /\ \A i \in 1 .. Len(comments) :
                       /\ after[i].id = comments[i].id
                       /\ after[i].blocked = comments[i].blocked

\* C12 witness: an unblocked comment is stored and its owner updates it with
\* a text that has a disallowed word.
C12_Witness ==
    \E i \in 1 .. Len(comments) :
        \E body \in UpdateDrafts :
            /\ ~comments[i].blocked
            /\ HasDisallowedToken(body.comment_text, WORDS)
            /\ update_comment(comments[i].id, body, comments[i].post_id,
                              comments[i].user_id) # None

\* C13: remove_comment called with the (id, post, owner) of a stored
\* comment returns that comment and deletes it and nothing else: the other
\* comments and the posts stay as they are, no read returns the comment any
\* more, and the same call made again returns None.
C13_RemoveDeletesExactlyThat ==
    [][\A comment \in Range(comments) :
           RemoveComment(comment.id, comment.post_id, comment.user_id) =>
               /\ remove_comment(comment.id, comment.post_id, comment.user_id)
                      = Some(comment)
               /\ Len(comments') = Len(comments) - 1
               /\ Range(comments') = Range(comments) \ {comment}
               /\ posts' = posts
               /\ remove_comment(comment.id, comment.post_id, comment.user_id)'
                      = None
               /\ get_comment(comment.post_id, comment.id)' = None
               /\ \A skip \in Skips, limit \in Limits :
                      /\ comment \notin
                             Range(get_all_comments(skip, limit, comment.post_id)')
                      /\ comment \notin
                             Range(get_my_comments_to_post(skip, limit,
                                       comment.post_id, comment.user_id)')]_vars

\* C13 witness: a comment was removed while another one stays in the store.
C13_Witness ==
    /\ comments # <<>>
    /\ \E id \in 1 .. (next_comment_id - 1) :
           \A i \in 1 .. Len(comments) : comments[i].id # id

\* C14: when the commit of the reply fails, the comment the call had
\* committed before is still in the store, unchanged, and no row of the
\* reply is left: the table is what it was before the failure.
C14_FailedReplyKeepsOriginal ==
    [][\A r \in Requests :
           (in_sleep(r) /\ req'[r].state = "done" /\ req'[r].error # None) =>
               /\ req[r].stack[1].comment \in Range(comments')
               /\ Len(comments') = Len(comments)
               /\ Range(comments') = Range(comments)
               /\ posts' = posts]_vars

\* C14 witness: a request failed on the commit of its reply and the comment
\* of its draft is in the store.
C14_Witness ==
    \E r \in Requests :
        /\ req[r].state = "done"
        /\ req[r].error = Some("OperationalError")
        /\ \E i \in 1 .. Len(comments) :
               /\ comments[i].comment_text = req[r].call[1].body.comment_text
               /\ comments[i].auto_reply_flag
               /\ comments[i].post_id = req[r].call[1].post_id
               /\ comments[i].user_id = req[r].call[1].user

\* C15: a create-comment request that fails in its auto-reply branch, its
\* own comment being in the store, still ends in success: the route is not
\* handed an exception to turn into a 500.
C15_ReplyFailureKeepsSuccess ==
    [][\A r \in Requests :
           (/\ req[r].state = "running"
            /\ req'[r].state = "done"
            /\ wants_reply(req[r].stack[1].comment)
            /\ req[r].stack[1].comment \in Range(comments')) =>
               req'[r].error = None]_vars

\* C16: in every state the post_id of every stored comment, a reply
\* included, is the id of a stored post: no comment is inserted for a
\* missing post and no post is removed from under its comments.
C16_CommentsReferToStoredPosts ==
    \A i \in 1 .. Len(comments) :
        \E j \in 1 .. Len(posts) : posts[j].id = comments[i].post_id

\* C16 witness: the owner of a post that has a comment asks for its removal,
\* which the store refuses.
C16_Witness ==
    \E i \in 1 .. Len(comments) :
        \E user \in Users :
            /\ remove_post(comments[i].post_id, user) # None
            /\ remove_post_raises(comments[i].post_id, user)

\* C17: a create-comment request with auto_reply_flag = true is answered
\* only after its delay and after its reply was stored: the frame enters
\* time.sleep with auto_reply_time seconds to wait, the seconds pass one by
\* one, the frame leaves the sleep only when none is left and by inserting
\* the reply, and the call returns only from there, the reply in the store.
C17_ResponseAfterDelayAndReply ==
    [][\A r \in Requests :
           (req[r].state = "running" /\ req[r].call[1].body.auto_reply_flag) =>
               LET frame == req[r].stack[1]
                   seconds == req[r].call[1].body.auto_reply_time
               IN  /\ (/\ req'[r].state = "running"
                       /\ frame.pc = "refresh"
                       /\ req'[r].stack[1].pc # "refresh") =>
                          /\ req'[r].stack[1].pc = "sleep"
                          /\ req'[r].stack[1].timer = seconds[1]
                   /\ (/\ req'[r].state = "running"
                       /\ frame.pc = "sleep"
                       /\ req'[r].stack[1].pc = "sleep") =>
                          req'[r].stack[1].timer \in {frame.timer, frame.timer - 1}
                   /\ (/\ req'[r].state = "running"
                       /\ frame.pc = "sleep"
                       /\ req'[r].stack[1].pc # "sleep") =>
                          /\ frame.timer = 0
                          /\ req'[r].stack[1].pc = "await_reply"
                          /\ Len(req'[r].stack) = 2
                          /\ comments' = Append(comments, req'[r].stack[2].comment)
                   /\ (req'[r].state = "done" /\ req'[r].error = None) =>
                          /\ Len(req[r].stack) = 2
                          /\ frame.pc = "await_reply"
                          /\ req[r].stack[2].comment \in Range(comments')]_vars

\* C17 witness: a request with auto_reply_flag = true and a delay of one
\* second was answered, and its reply is in the store.
C17_Witness ==
    \E r \in Requests :
        /\ ReturnedOk(r)
        /\ req[r].call[1].body.auto_reply_flag
        /\ req[r].call[1].body.auto_reply_time = Some(1)
        /\ \E i \in 1 .. Len(comments) :
               /\ comments[i].id = req[r].value[1].id + 1
               /\ comments[i].comment_text =
                      ExpectedReply(req[r].value[1].comment_text)

\* C18: a PUT of a comment or of a post whose lookup by (id, parent, owner)
\* finds no row is answered 404 with detail "Comment not found" or
\* "Post not found".
C18_UpdateOfMissingRowIs404 ==
    /\ \A body \in PostDrafts, post_id \in PostIds, user \in Users :
           update_post(post_id, body, user) = None =>
               /\ route_update_post(body, post_id, user).status = 404
               /\ route_update_post(body, post_id, user).detail = "Post not found"
    /\ \A body \in UpdateDrafts, comment_id \in CommentIds,
          post_id \in PostIds, user \in Users :
           update_comment(comment_id, body, post_id, user) = None =>
               /\ route_update_comment(body, comment_id, post_id, user).status = 404
               /\ route_update_comment(body, comment_id, post_id, user).detail
                      = "Comment not found"

\* C19: for a stored comment, its post and its owner, DELETE answers 200
\* with the comment that remove_comment returns for that triple, and PUT
\* answers 200 with what update_comment returns for it.
C19_RoutesActOnTheTriple ==
    \A i \in 1 .. Len(comments) :
        LET c == comments[i]
        IN  /\ route_remove_comment(c.post_id, c.id, c.user_id).status = 200
            /\ route_remove_comment(c.post_id, c.id, c.user_id).body
                   = remove_comment(c.id, c.post_id, c.user_id)
            /\ \A body \in UpdateDrafts :
                   /\ route_update_comment(body, c.id, c.post_id, c.user_id).status
                          = 200
                   /\ route_update_comment(body, c.id, c.post_id, c.user_id).body
                          = update_comment(c.id, body, c.post_id, c.user_id)

\* update_post, whatever its draft, leaves the blocked flag of every post.
C20_UpdatePostKeepsBlocked ==
    \A post_id \in PostIds, body \in PostDrafts, user \in Users :
        update_post(post_id, body, user) # None =>
            LET after == posts_after_update_post(post_id, body, user)
            IN  /\ Len(after) = Len(posts)
                /\ \A i \in 1 .. Len(posts) :
                       /\ after[i].id = posts[i].id
                       /\ after[i].blocked = posts[i].blocked

\* No step changes the blocked flag of a post that stays in the store.
C20_StepsKeepBlocked ==
    \A before \in Range(posts), after \in Range(posts') :
        after.id = before.id => after.blocked = before.blocked

\* C20: the blocked flag of a stored post is the one create_post computed:
\* no update_post, create_comment, update_comment or remove_comment, nor any
\* other step, changes it while the post is in the store.
C20_PostBlockedFixedAtCreation ==
    [](C20_UpdatePostKeepsBlocked) /\ [][C20_StepsKeepBlocked]_vars

\* C20 witness: an unblocked post is stored and its owner's update_post
\* returns a post object that says blocked.
C20_Witness ==
    \E i \in 1 .. Len(posts) :
        \E body \in PostDrafts :
            /\ ~posts[i].blocked
            /\ update_post(posts[i].id, body, posts[i].user_id) # None
            /\ update_post(posts[i].id, body, posts[i].user_id)[1].blocked

\* C22: update_post on a post of the caller returns a post with blocked =
\* true whatever the draft's text, with the draft's post_text and
\* post_download, and issues one commit.
C22_UpdatePostAlwaysBlocked ==
    \A post_id \in PostIds, body \in PostDrafts, user \in Users :
        (\E i \in 1 .. Len(posts) :
             posts[i].id = post_id /\ posts[i].user_id = user) =>
            /\ update_post(post_id, body, user) # None
            /\ update_post(post_id, body, user)[1].blocked = TRUE
            /\ update_post(post_id, body, user)[1].post_text = body.post_text
            /\ update_post(post_id, body, user)[1].post_download = body.post_download
            /\ update_post_commits(post_id, body, user) = 1

\* C22 witness: the owner of a stored post updates it with a text that has
\* no disallowed word.
C22_Witness ==
    \E i \in 1 .. Len(posts) :
        \E body \in PostDrafts :
            /\ ~HasDisallowedToken(body.post_text, WORDS)
            /\ update_post(posts[i].id, body, posts[i].user_id) # None

\* The unblocked comments of the post, of the owner if one is given, that
\* stand before row c in the table.
UnblockedBefore(c, post_id, owner) ==
    Cardinality({j \in 1 .. Len(comments) :
        /\ comments[j].post_id = post_id
        /\ ~comments[j].blocked
        /\ (owner # None => comments[j].user_id = owner[1])
        /\ \E i \in (j + 1) .. Len(comments) : comments[i] = c})

\* The unblocked comments of the post, of the owner if one is given.
UnblockedOf(post_id, owner) ==
    {c \in Range(comments) :
        /\ c.post_id = post_id
        /\ ~c.blocked
        /\ (owner # None => c.user_id = owner[1])}

\* result is the page (skip, limit) of the unblocked comments of the post.
IsPage(result, skip, limit, post_id, owner) ==
    LET all == UnblockedOf(post_id, owner)
        rest == IF Cardinality(all) > skip THEN Cardinality(all) - skip ELSE 0
    IN  /\ Len(result) <= limit
        /\ Len(result) = IF limit < rest THEN limit ELSE rest
        /\ \A k \in 1 .. Len(result) :
               /\ result[k] \in all
               /\ UnblockedBefore(result[k], post_id, owner) = skip + k - 1

\* C23: get_all_comments(skip, limit, post_id) returns at most limit
\* comments, all unblocked comments of the post and none of its first skip
\* ones, and as many as are left when limit is larger than that;
\* get_my_comments_to_post does so among the comments of the user.
C23_Pagination ==
    \A skip \in Skips, limit \in Limits, post_id \in PostIds :
        /\ IsPage(get_all_comments(skip, limit, post_id), skip, limit,
                  post_id, None)
        /\ \A user \in Users :
               IsPage(get_my_comments_to_post(skip, limit, post_id, user),
                      skip, limit, post_id, Some(user))

\* C23 witness: a post has more unblocked comments than one page of size 1,
\* and a listing that skips one of them still returns a comment.
C23_Witness ==
    \E post_id \in PostIds :
        /\ get_all_comments(1, 100, post_id) # <<>>
        /\ Len(get_all_comments(0, 1, post_id)) = 1

\* C25: with auto_reply_flag = true the delay never raises, whether
\* auto_reply_time is unset, zero, positive or negative: a stored comment
\* that asks for a reply gets past time.sleep.
C25_AnyDelayIsAccepted ==
    \A r \in Requests :
        (/\ req[r].state = "running"
         /\ Len(req[r].stack) = 1
         /\ req[r].stack[1].pc = "refresh"
         /\ req[r].stack[1].comment \in Range(comments)
         /\ wants_reply(req[r].stack[1].comment)) =>
            sleep_raises(req[r].stack[1].comment.auto_reply_time) = None

\* C26: what a successful update_comment returns is the stored comment it
\* was aimed at: it has the id it was called with, the post_id and user_id
\* of the lookup and the draft's comment_text and auto_reply_flag.
C26_UpdateReturnsTheComment ==
    \A comment_id \in CommentIds, body \in UpdateDrafts,
       post_id \in PostIds, user \in Users :
        update_comment(comment_id, body, post_id, user) # None =>
            LET comment == update_comment(comment_id, body, post_id, user)[1]
            IN  /\ "id" \in DOMAIN comment
                /\ comment.id = comment_id
                /\ comment.post_id = post_id
                /\ comment.user_id = user
                /\ comment.comment_text = body.comment_text
                /\ comment.auto_reply_flag = body.auto_reply_flag

\* C28: whether a call creates a reply depends on the draft's
\* auto_reply_flag alone: a call that returns has inserted two rows when the
\* flag is set and one when it is not, whether or not its comment was
\* blocked, and the reply is blocked by its own text only.
C28_ReplyDependsOnFlagOnly ==
    [][\A r \in Requests :
           (/\ req[r].state = "running"
            /\ req'[r].state = "done"
            /\ req'[r].error = None) =>
               LET comment == req'[r].value[1]
                   added == next_comment_id' - comment.id
               IN  /\ added = IF comment.auto_reply_flag THEN 2 ELSE 1
                   /\ comment.auto_reply_flag =>
                          \E reply \in Range(comments') :
                              /\ reply.id = comment.id + 1
                              /\ reply.post_id = comment.post_id
                              /\ reply.blocked =
                                     HasDisallowedToken(reply.comment_text, WORDS)]_vars

\* C28 witness: a call whose comment was stored blocked has returned, and
\* its reply is in the store, not blocked.
C28_Witness ==
    \E r \in Requests :
        /\ ReturnedOk(r)
        /\ req[r].value[1].blocked
        /\ req[r].value[1].auto_reply_flag
        /\ \E i \in 1 .. Len(comments) :
               /\ comments[i].id = req[r].value[1].id + 1
               /\ ~comments[i].blocked

\* The posts that get_post, get_all_posts and get_my_posts return.
ReturnedPosts ==
    UNION ({Range(get_all_posts(skip, limit)) :
                skip \in Skips, limit \in Limits}
           \cup {Range(get_my_posts(skip, limit, user)) :
                skip \in Skips, limit \in Limits, user \in Users}
           \cup {Range(get_post(post_id)) : post_id \in PostIds})

\* C27: every post that get_post, get_all_posts or get_my_posts returns is
\* not blocked, and no comment in the comments collection of a returned
\* post is blocked.
C27_ReturnedPostsHideBlocked ==
    \A post \in ReturnedPosts :
        /\ post.blocked = FALSE
        /\ \A comment \in Range(post.comments) : comment.blocked = FALSE

\* The comment with this id is stored and asks for a reply.
OriginalStored(id) ==
    \E c \in Range(comments) : c.id = id /\ c.auto_reply_flag = TRUE

\* The reply to the comment with this id is stored: the next row, under the
\* same post, with the generated text.
ReplyStored(id) ==
    \E c \in Range(comments) :
        /\ c.id = id
        /\ \E reply \in Range(comments) :
               /\ reply.id = id + 1
               /\ reply.post_id = c.post_id
               /\ reply.comment_text = ExpectedReply(c.comment_text)

\* C21: once a comment with auto_reply_flag = true is stored, its reply is
\* stored at some later time, unless the comment itself is deleted first:
\* no execution keeps the comment and never creates the reply.
C21_ReplyEventuallyPersisted ==
    \A id \in CommentIds :
        OriginalStored(id) ~> (ReplyStored(id) \/ ~OriginalStored(id))

\* The comments of the post created on calendar day d.
CreatedOn(post_id, d) ==
    {i \in 1 .. Len(comments) :
        /\ comments[i].post_id = post_id
        /\ d * DayLen <= comments[i].created_at
        /\ comments[i].created_at < (d + 1) * DayLen}

\* The calendar days from that of date_from to that of date_to.
DaysBetween(date_from, date_to) ==
    {d \in Days : /\ \E t \in 0 .. (DayLen - 1) : d * DayLen + t >= date_from
                  /\ d * DayLen <= date_to}

C29_TokenKindsNotInterchangeable ==
    \A token \in tokens :
        /\ token.scope # None =>
               /\ route_confirmed_email(token).status >= 400
               /\ users_after_confirmed_email(token) = users
               /\ \A password \in Passwords :
                      route_reset_password(token, password).status >= 400
        /\ token.scope # Some("access_token") =>
               get_current_user(token).raised # None
        /\ token.scope # Some("refresh_token") =>
               /\ route_refresh_token(token).status >= 400
               /\ users_after_refresh_token(token) = users

\* The refresh token stored for the user of this email.
StoredToken(email) == get_user_by_email(email)[1].refresh_token

\* C30: the refresh endpoint answers 200 only to the refresh token stored
\* for its user, and then stores the refresh token it returns; to any other
\* signed refresh token of a user it answers 401 and clears the stored
\* token; and a cleared token stays cleared until the user logs in.
C30_OnlyStoredRefreshToken ==
    /\ [](\A token \in Presented :
           route_refresh_token(token).status = 200 =>
               /\ get_user_by_email(token.sub) # None
               /\ StoredToken(token.sub) = Some(token))
    /\ [](\A token \in tokens :
           (token.scope = Some("refresh_token")
            /\ get_user_by_email(token.sub) # None) =>
               LET after == users_after_refresh_token(token)
                   Mine(user) == user.email = token.sub
                   mine == SelectSeq(after, Mine)[1]
               IN  IF StoredToken(token.sub) = Some(token)
                   THEN /\ route_refresh_token(token).status = 200
                        /\ mine.refresh_token =
                               Some(route_refresh_token(token).refresh_token)
                        /\ mine.refresh_token[1].scope = Some("refresh_token")
                        /\ mine.refresh_token[1].sub = token.sub
                        /\ mine.refresh_token[1].iat = clock
                   ELSE /\ route_refresh_token(token).status = 401
                        /\ mine.refresh_token = None)
    /\ [][\A i \in DOMAIN users :
              (users[i].refresh_token = None
               /\ users'[i].refresh_token # None) =>
                  \E password \in Passwords : Login(users[i].email, password)]_vars

\* C30 witness: after a login and a refresh in a later second, the token
\* of the login was presented again: the stored token is cleared, and two
\* refresh tokens of the user are out.
C30_Witness ==
    \E email \in Emails :
        /\ get_user_by_email(email) # None
        /\ get_user_by_email(email)[1].confirmed
        /\ StoredToken(email) = None
        /\ \E t1 \in tokens, t2 \in tokens :
               /\ t1.scope = Some("refresh_token")
               /\ t2.scope = Some("refresh_token")
               /\ t1.sub = email
               /\ t2.sub = email
               /\ t1.iat < t2.iat

============================================================================
